---- MODULE Spec2Model ----
(***************************************************************************)
(* scikit-dataaccess: the on-disk download cache of                        *)
(* skdaccess/framework/data_class.py (DataFetcherCache.cacheData).         *)
(*                                                                         *)
(* Text (URLs, file names) is a sequence of tokens: the delimiters         *)
(* ":" "/" ";" "?" "#" and names ("http", "h", "a", "..", ...).  A name    *)
(* stands for a run of characters that holds no delimiter.                 *)
(***************************************************************************)
EXTENDS Integers, Sequences, FiniteSets, TLC

VARIABLES
    \* ---- the file system shared by all callers
    fs,        \* directory entries: absolute location -> inode id
    ino,       \* inode id -> content (a sequence of body chunks)
    lock,      \* inode id -> the process holding the POSIX record lock on it
    private,   \* inode id -> the one user who may open it ("all": every user)
    \* ---- one cacheData caller (a thread of some process) each
    proc,      \* caller -> its process ("none": the caller does not exist)
    pool,      \* the urlLists a call may be made with
    pc,        \* caller -> position in cacheData
    urls,      \* caller -> online_path_list of the current call
    listing,   \* caller -> files of the scan not yet passed to checkIfDataExists
    found,     \* caller -> downloaded_parsed_urls
    missing,   \* caller -> missing_files not yet processed (sorted)
    fd,        \* caller -> inode of the open lockfile
    tmp,       \* caller -> inode of atomic_write's temporary file
    result,    \* caller -> the list returned by the call
    \* ---- history of what each call did
    dls,       \* caller -> parsed URLs whose transfer the current call started
    failedOn,  \* caller -> the parsed URL whose transfer raised in this call
    prev,      \* caller -> the previous call: its list, result, outcome, and
               \*           the URLs whose download it completed
    \* ---- options, transports and the remote side
    world,     \* the options a call may be made with, the responses a server
               \* gives, the user each process runs as
    opts,      \* caller -> use_requests, authentication_url, credentials of the call
    net,       \* caller -> the responses to the transfers the current call started
    err,       \* caller -> the exception that ended the current call
    opener,    \* process -> the opener install_opener has installed in it: the
               \*            credentials and the URLs they are registered for
    \* ---- the path mapping applied to a pair of URLs
    ua, ub, pa, pb,
    \* ---- the configuration file and the processes that resolve a data set
    conf_file, \* ~/.skdaccess.conf: the root option and the data_location of
               \* each section
    rootdirs,  \* the directories os.makedirs has created
    rp,        \* process -> position in getDataLocation
    rname,     \* process -> data_name of the current resolution
    rconf,     \* process -> the ConfigParser object it holds
    rcalls,    \* process -> number of resolutions it has started
    writes,    \* data_name -> number of times writeConfig stored its entry
    \* ---- an AutoList object and the list objects it refers to
    autolist,  \* its class, val_init, val_list (references), n, and the heap
    ahist,     \* the list as it was given at construction; the last call
    \* ---- an AutoParamMinMax object
    param,     \* val, val_init, val_min, val_max (in tenths), n, n_max, decimals
    phist,     \* the perturb calls since construction or the last reset; the
               \* last call, and whether it chose between the extremes
    \* ---- the binned TEC server
    cacheDict, \* BinnedTecCache.cacheDict: key -> BinnedTecData object
    rpc,       \* the thread that serves create and next: its position in
               \* pop, the key, the exception that ended its last call
    upd,       \* the BinnedTecUpdater thread: its position in update, the
               \* size the dictionary had when the loop began, the keys left,
               \* keysToDelete
    tlog       \* key -> what next(key) has returned, and the number of
               \* sessions created

vars == <<fs, ino, lock, private, proc, pool, pc, urls, listing, found, missing, fd, tmp,
          result, dls, failedOn, prev, world, opts, net, err, opener, ua, ub, pa, pb,
          conf_file, rootdirs, rp, rname, rconf, rcalls, writes,
          autolist, ahist, param, phist, cacheDict, rpc, upd, tlog>>

cacheVars == <<fs, ino, lock, private, proc, pool, pc, urls, listing, found, missing, fd,
               tmp, result, dls, failedOn, prev, world, opts, net, err, opener>>

pathVars == <<ua, ub, pa, pb>>

regVars == <<conf_file, rootdirs, rp, rname, rconf, rcalls, writes>>

listVars == <<autolist, ahist>>

paramVars == <<param, phist>>

tecVars == <<cacheDict, rpc, upd, tlog>>

\* What the steps of cacheData leave alone.
otherVars == <<regVars, listVars, paramVars, tecVars>>

----------------------------------------------------------------------------
(* Text helpers *)

Delims == {":", "/", ";", "?", "#"}

\* The first index i >= from with s[i] = t, or 0 (str.find).
Find(s, t, from) ==
    LET hits == {i \in from..Len(s) : s[i] = t}
    IN  IF hits = {} THEN 0 ELSE CHOOSE i \in hits : \A j \in hits : i <= j

\* The last index i with s[i] = t, or 0 (str.rfind).
RFind(s, t) ==
    LET hits == {i \in 1..Len(s) : s[i] = t}
    IN  IF hits = {} THEN 0 ELSE CHOOSE i \in hits : \A j \in hits : i >= j

\* s[i:] of a string (1-based first kept index i).
From(s, i) == SubSeq(s, i, Len(s))

\* Code-point order of the tokens (Python compares str by code point):
\* '#' < '.' < '/' < ':' < ';' < '?' < letters.
Rank(t) ==
    CASE t = "#" -> 1 [] t = ".." -> 2 [] t = "/" -> 3 [] t = ":" -> 4
      [] t = ";" -> 5 [] t = "?" -> 6
      [] t = "a" -> 10 [] t = "b" -> 11 [] t = "e" -> 12 [] t = "f" -> 13
      [] t = "file" -> 14 [] t = "h" -> 15 [] t = "http" -> 16
      [] t = "p" -> 17 [] t = "q" -> 18 [] t = "r" -> 19 [] t = "x" -> 20
      [] OTHER -> 30

\* s < t for two strings (lexicographic).
StrLess(s, t) ==
    \E i \in 1..(Len(t)) :
        /\ \A j \in 1..(i - 1) : j <= Len(s) /\ s[j] = t[j]
        /\ \/ i = Len(s) + 1
           \/ i <= Len(s) /\ Rank(s[i]) < Rank(t[i])

----------------------------------------------------------------------------
(* urllib.parse as cacheData uses it *)

\* Schemes in urllib.parse.uses_params that the model's URLs use ("" included,
\* "file" not).
UsesParams == {<<>>, <<"http">>}

\* s.split(t, 1) at index k = s.find(t) (0: not found).
SplitAt(s, k) ==
    IF k = 0 THEN [head |-> s, tail |-> <<>>]
    ELSE [head |-> SubSeq(s, 1, k - 1), tail |-> From(s, k + 1)]

\* urlsplit: the index of the ":" that ends the scheme (0: no scheme); the
\* text before it must be scheme characters.
SchemeEnd(url, i) ==
    IF i > 1 /\ \A j \in 1..(i - 1) : url[j] \notin Delims THEN i ELSE 0

\* urlsplit, _splitnetloc: after a leading "//" the netloc runs to the first
\* of "/", "?", "#" (index of that delimiter; 0: no netloc).
NetlocEnd(r) ==
    IF Len(r) >= 2 /\ r[1] = "/" /\ r[2] = "/"
    THEN IF \E k \in 3..Len(r) : r[k] \in {"/", "?", "#"}
         THEN CHOOSE k \in 3..Len(r) :
                  /\ r[k] \in {"/", "?", "#"}
                  /\ \A m \in 3..(k - 1) : r[m] \notin {"/", "?", "#"}
         ELSE Len(r) + 1
    ELSE 0

\* _splitparams: the index of the first ";" of the last path segment (0: none).
ParamsAt(path) ==
    IF RFind(path, "/") > 0 THEN Find(path, ";", RFind(path, "/"))
    ELSE Find(path, ";", 1)

\* urlparse, last step: params are split from the path for the schemes of
\* uses_params.
WithParams(scheme, netloc, path, query, fragment, s) ==
    [scheme   |-> scheme,
     netloc   |-> netloc,
     path     |-> IF s > 0 THEN SubSeq(path, 1, s - 1) ELSE path,
     params   |-> IF s > 0 THEN From(path, s + 1) ELSE <<>>,
     query    |-> query,
     fragment |-> fragment]

\* urlsplit: query and path from the text before the fragment.
WithQuery(scheme, netloc, pq, fragment) ==
    WithParams(scheme, netloc, pq.head, pq.tail, fragment,
               IF scheme \in UsesParams THEN ParamsAt(pq.head) ELSE 0)

\* urlsplit: fragment from the text after the netloc.
WithFragment(scheme, netloc, pqf) ==
    WithQuery(scheme, netloc, SplitAt(pqf.head, Find(pqf.head, "?", 1)),
              pqf.tail)

\* urlsplit: netloc from the text after the scheme.
WithNetloc(scheme, r, e) ==
    WithFragment(scheme,
                 IF e > 0 THEN SubSeq(r, 3, e - 1) ELSE <<>>,
                 IF e > 0 THEN SplitAt(From(r, e), Find(From(r, e), "#", 1))
                 ELSE SplitAt(r, Find(r, "#", 1)))

WithScheme(url, i) ==
    IF i > 0 THEN WithNetloc(SubSeq(url, 1, i - 1), From(url, i + 1),
                             NetlocEnd(From(url, i + 1)))
    ELSE WithNetloc(<<>>, url, NetlocEnd(url))

\* parse.urlparse(url): the 6-tuple ParseResult.
urlparse(url) == WithScheme(url, SchemeEnd(url, Find(url, ":", 1)))

\* Schemes in urllib.parse.uses_netloc that the model's URLs use.
UsesNetloc == {<<"http">>, <<"file">>}

\* ParseResult.geturl(): urlunparse.
geturl(u) ==
    LET p1 == IF u.params # <<>> THEN u.path \o <<";">> \o u.params ELSE u.path
        p2 == IF u.netloc # <<>>
                 \/ (u.scheme \in UsesNetloc
                     /\ ~(Len(p1) >= 2 /\ p1[1] = "/" /\ p1[2] = "/"))
              THEN <<"/", "/">> \o u.netloc
                   \o (IF p1 # <<>> /\ p1[1] # "/" THEN <<"/">> ELSE <<>>) \o p1
              ELSE p1
        p3 == IF u.scheme # <<>> THEN u.scheme \o <<":">> \o p2 ELSE p2
        p4 == IF u.query # <<>> THEN p3 \o <<"?">> \o u.query ELSE p3
    IN  IF u.fragment # <<>> THEN p4 \o <<"#">> \o u.fragment ELSE p4

\* Tuple order of two ParseResults (list.sort on missing_files).
UrlLess(u, v) ==
    LET U == <<u.scheme, u.netloc, u.path, u.params, u.query, u.fragment>>
        V == <<v.scheme, v.netloc, v.path, v.params, v.query, v.fragment>>
    IN  \E i \in 1..6 :
            /\ \A j \in 1..(i - 1) : U[j] = V[j]
            /\ StrLess(U[i], V[i])

----------------------------------------------------------------------------
(* os.path and the kernel's path resolution *)

\* os.path.join(a, b) on POSIX.
Join2(a, b) ==
    IF b # <<>> /\ b[1] = "/" THEN b
    ELSE IF a = <<>> \/ a[Len(a)] = "/" THEN a \o b
    ELSE a \o <<"/">> \o b

join4(a, b, c, d) == Join2(Join2(Join2(a, b), c), d)

\* The components of a path string: the runs of tokens between "/".
RECURSIVE Components(_)
Components(s) ==
    IF s = <<>> THEN <<>>
    ELSE LET k    == Find(s, "/", 1)
             head == IF k = 0 THEN s ELSE SubSeq(s, 1, k - 1)
             rest == IF k = 0 THEN <<>> ELSE From(s, k + 1)
         IN  IF head = <<>> THEN Components(rest)
             ELSE <<head>> \o Components(rest)

\* The location an absolute path string names: ".." steps to the parent
\* (the root's parent is the root), empty components are skipped.
RECURSIVE Walk(_, _)
Walk(comps, at) ==
    IF comps = <<>> THEN at
    ELSE IF Head(comps) = <<"..">>
         THEN Walk(Tail(comps),
                   IF at = <<>> THEN <<>> ELSE SubSeq(at, 1, Len(at) - 1))
         ELSE Walk(Tail(comps), Append(at, Head(comps)))

Resolve(path) == Walk(Components(path), <<>>)

\* A path string from a location (what glob returns for a file it found).
RECURSIVE PathOf(_)
PathOf(loc) ==
    IF loc = <<>> THEN <<>> ELSE <<"/">> \o Head(loc) \o PathOf(Tail(loc))

IsPrefix(a, b) == Len(a) <= Len(b) /\ SubSeq(b, 1, Len(a)) = a

----------------------------------------------------------------------------
(* cacheData's two local functions *)

\* The dataset's CacheRoot (data_location), an absolute directory.
data_location == <<"/", "r">>

\* A path built from scheme, netloc and path alone.
generatePathNoQuery(root, u) ==
    join4(root, u.scheme, u.netloc, IF u.path = <<>> THEN <<>> ELSE Tail(u.path))

\* generatePath(data_location, parsed_url).  parsed_url.path[1:] drops the
\* first character; every path of the model's URLs is empty or starts with "/".
generatePath(root, u) ==
    LET p1 == IF u.path = <<>> THEN <<>> ELSE Tail(u.path)
    IN  IF u.query = <<>>
        THEN join4(root, u.scheme, u.netloc, p1)
        ELSE join4(root, u.scheme, u.netloc, p1 \o <<"?">> \o u.query)

\* parseURL(data_location, in_path): the URL a file of the cache stands for.
parseURL(root, in_path) ==
    LET n     == Len(Components(root))
        parts == Components(in_path)
        acc   == parts[n + 1]
        sep   == IF acc # <<"file">> THEN <<":", "/", "/">>
                 ELSE <<":", "/", "/", "/">>
        rest  == PathOf(SubSeq(parts, n + 2, Len(parts)))
        \* pathlib.Path(*parts).as_posix(): no leading "/", "." for no part
        posix == IF rest = <<>> THEN <<".">> ELSE Tail(rest)
    IN  urlparse(acc \o sep \o posix)

----------------------------------------------------------------------------
(* The remote side *)

\* Chunks of a non-empty response body (shutil.copyfileobj copies chunk by
\* chunk).
BodyChunks == 2

\* What the request for parsed URL u names on the wire: geturl() without the
\* fragment, which urlopen and requests never send.
Resource(u) == geturl([u EXCEPT !.fragment = <<>>])

\* The resource whose path is /e has a zero-length body.
BodyLen(u) ==
    IF u.path # <<>> /\ u.path[Len(u.path)] = "e" THEN 0 ELSE BodyChunks

\* The body of the resource of u.
Body(u) == [k \in 1..BodyLen(u) |-> [res |-> Resource(u), k |-> k]]

\* The body of a response whose status is not 2xx: the server's error page.
ErrorPage(status) == <<[res |-> <<"error", status>>, k |-> 1]>>

\* The responses a server may give to a transfer: the final status (after the
\* handlers of the opener have answered a Basic challenge) and whether the
\* connection closes before the last chunk of the body.
Statuses == {"ok", "401", "403", "404"}

Responses ==
    {r \in [status : Statuses, short : BOOLEAN] : r.short => r.status = "ok"}

OkResponse == [status |-> "ok", short |-> FALSE]

\* The most the transport reads for parsed URL u from response r: a
\* connection that closes early closes before the last chunk.
Served(u, r) ==
    LET full == IF r.status = "ok" THEN Body(u) ELSE ErrorPage(r.status)
    IN  IF r.short /\ full # <<>> THEN SubSeq(full, 1, Len(full) - 1)
        ELSE full

\* The options of a call: use_requests, authentication_url given or None,
\* and username/password: none, accepted by the server, or not accepted.
Options == [use_requests : BOOLEAN, authentication_url : BOOLEAN,
            creds : {"none", "good", "bad"}]

DefaultOptions ==
    [use_requests |-> FALSE, authentication_url |-> FALSE, creds |-> "none"]

\* A server denies (401, 403) only a request without accepted credentials; a
\* response cannot be cut short of a body it does not have.
CanAnswer(o, u, r) ==
    /\ r.status \in {"401", "403"} => o.creds # "good"
    /\ r.short => (IF r.status = "ok" THEN Body(u) ELSE ErrorPage(r.status)) # <<>>

\* The exception the transport raises on the URL itself, before it sends
\* anything ("none": the request is sent).  Without a scheme urlopen raises
\* ValueError("unknown url type: <url>") and requests MissingSchema, a
\* ValueError that names the URL ("InvalidURL" here); an http URL without a
\* host makes urlopen raise URLError("no host given") and requests InvalidURL.
UrlError(o, u) ==
    IF u.scheme = <<>> THEN "InvalidURL"
    ELSE IF u.scheme = <<"http">> /\ u.netloc = <<>>
         THEN IF o.use_requests THEN "InvalidURL" ELSE "URLError"
         ELSE "none"

\* The exception the transport raises on the status of response r ("none":
\* it hands the body over).  urlopen raises HTTPError for every status that
\* is not 2xx; the requests branches never look at the status, except for
\* 401 when username or password is given.
StatusError(o, r) ==
    IF ~o.use_requests
    THEN IF r.status = "ok" THEN "none" ELSE "HTTPError"
    ELSE IF o.creds # "none" /\ r.status = "401" THEN "RuntimeError"
         ELSE "none"

----------------------------------------------------------------------------
(* Callers and files *)

Callers == {"c1", "c2"}

NoIno == 0

NoURL == <<"none">>

Range(f) == {f[x] : x \in DOMAIN f}

RootLoc == Resolve(data_location)

\* A writer that opens out_filename itself for writing.
TmpLocInPlace(c, out) == Resolve(out)

\* The name tempfile.NamedTemporaryFile(dir=<directory of out_filename>) gives
\* the file atomic_write writes to: in the target's directory, its own per
\* writer.
TmpLoc(c, out) ==
    LET loc == Resolve(out)
    IN  Append(SubSeq(loc, 1, Len(loc) - 1), <<"tmp", c>>)

\* len(first_byte) == 0 after read_file.read(1) (checkIfDataExists).
FirstByteEmpty(content) == content = <<>>

\* A lockfile opened 'a+b' and read without lockfile.seek(0): the position is
\* the end of the file and read(1) returns nothing.
LockfileEmptyNoSeek(content) == TRUE

\* lockfile.seek(0); len(lockfile.read(1)) == 0
LockfileEmpty(content) == content = <<>>

\* The smallest inode number not in use.
NewIno(inodes) ==
    CHOOSE n \in 1..(Cardinality(DOMAIN inodes) + 1) :
        /\ n \notin DOMAIN inodes
        /\ \A m \in 1..(n - 1) : m \in DOMAIN inodes

Restrict(f, S) == [x \in (DOMAIN f) \cap S |-> f[x]]

\* The user a caller runs as.
UserOf(c) == world.users[proc[c]]

\* The permissions of a file made now.  The temporary file of atomic_write
\* comes from tempfile (mode 0600: its owner alone opens it) and keeps its
\* mode when renamed; a file made by open(out_filename, 'a+b') gets the mode
\* the umask of a shared cache leaves: every user of the cache opens it.
ModeOfNew(i, newTmp) ==
    IF \E c \in Callers : newTmp[c] = i
    THEN UserOf(CHOOSE c \in Callers : newTmp[c] = i)
    ELSE "all"

\* open() of inode i by caller c succeeds.
CanOpen(c, i) == private[i] \in {"all", UserOf(c)}

\* The new state of the file system; an inode with no name and no open
\* descriptor is gone.
SetFiles(newFs, newIno, newLock, newFd, newTmp) ==
    LET live == Range(newFs) \cup Range(newFd) \cup Range(newTmp)
    IN  /\ fs' = newFs
        /\ ino' = Restrict(newIno, live)
        /\ lock' = Restrict(newLock, live)
        /\ private' = [i \in live \cap DOMAIN newIno |->
                         IF i \in DOMAIN private THEN private[i]
                         ELSE ModeOfNew(i, newTmp)]
        /\ fd' = newFd
        /\ tmp' = newTmp

\* A close that leaves the lock in place.
CloseKeepsLock(lk, i, p) == lk

\* close(fd) by a thread of process p: the kernel drops every POSIX record
\* lock p holds on the file, whichever descriptor took it.
CloseBy(lk, i, p) == IF lk[i] = p THEN [lk EXCEPT ![i] = "none"] ELSE lk

\* sorted(S) under the tuple order of ParseResult.
RECURSIVE Sorted(_)
Sorted(S) ==
    IF S = {} THEN <<>>
    ELSE LET m == CHOOSE x \in S : \A y \in S \ {x} : UrlLess(x, y)
         IN  <<m>> \o Sorted(S \ {m})

\* parsed_http_paths
Parsed(list) == [i \in 1..Len(list) |-> urlparse(list[i])]

\* missing_files built from the list, not from its set: a URL listed twice
\* is processed twice.
RECURSIVE InsertSorted(_, _)
InsertSorted(u, sq) ==
    IF sq = <<>> THEN <<u>>
    ELSE IF UrlLess(Head(sq), u) THEN <<Head(sq)>> \o InsertSorted(u, Tail(sq))
    ELSE <<u>> \o sq

RECURSIVE SortedList(_)
SortedList(sq) ==
    IF sq = <<>> THEN <<>> ELSE InsertSorted(Head(sq), SortedList(Tail(sq)))

MissingOfList(list, downloaded) ==
    SortedList(SelectSeq(Parsed(list), LAMBDA u : u \notin downloaded))

\* missing_files left in the order of the list.
MissingOfUnsorted(list, downloaded) ==
    SelectSeq(Parsed(list), LAMBDA u : u \notin downloaded)

\* missing_files: list(set(parsed_http_paths).difference(downloaded)), sorted.
MissingOf(list, downloaded) == Sorted(Range(Parsed(list)) \ downloaded)

\* A return list built from the sorted, de-duplicated work list.
ReturnPathsSorted(list) ==
    [i \in 1..Cardinality(Range(Parsed(list))) |->
        generatePath(data_location, Sorted(Range(Parsed(list)))[i])]

\* The list cacheData returns.
ReturnPaths(list) ==
    [i \in 1..Len(list) |-> generatePath(data_location, Parsed(list)[i])]

\* urlopen with no opener installed uses the default opener.
NoOpener == [creds |-> "none", uris |-> {}, auth |-> FALSE]

\* install_opener(build_opener(cookie_processor, handler)) of a call with
\* options o and work list missing_files: the password manager holds the
\* call's username and password for authentication_url (the URL the server
\* sends a client to for authentication), or for the URLs of missing_files
\* when none is given; the cookie processor holds the call's cookie jar.
Installed(o, missing_files) ==
    [creds |-> o.creds,
     uris  |-> IF o.authentication_url THEN {}
               ELSE {geturl(missing_files[i]) : i \in 1..Len(missing_files)},
     auth  |-> o.authentication_url]

\* The password manager of opener op answers a challenge for parsed URL u.
Covers(op, u) == op.auth \/ geturl(u) \in op.uris

\* The credentials the transport of caller c presents for u: with requests
\* those of the call, with urlopen those of the opener of the process.
Presented(c, u) ==
    IF opts[c].use_requests THEN opts[c].creds
    ELSE IF Covers(opener[proc[c]], u) THEN opener[proc[c]].creds
         ELSE "none"

\* True if data exists (checkIfDataExists): the file opens and is not empty.
checkIfDataExists(f) == f \in DOMAIN fs /\ ~FirstByteEmpty(ino[fs[f]])

----------------------------------------------------------------------------
(* cacheData, step by step.  A step is one system call on the shared file   *)
(* system together with the local computation around it.                    *)

\* What the loop over missing_files does once the first of `rest` is dealt
\* with: the next URL, or the return of the path list.
Advance(c, rest) ==
    /\ missing' = [missing EXCEPT ![c] = rest]
    /\ IF rest = <<>>
       THEN /\ pc' = [pc EXCEPT ![c] = "returned"]
            /\ result' = [result EXCEPT ![c] = ReturnPaths(urls[c])]
       ELSE /\ pc' = [pc EXCEPT ![c] = "open"]
            /\ UNCHANGED result

\* The file of parsed URL u is absent or zero bytes long.
NothingCached(u) ==
    LET loc == Resolve(generatePath(data_location, u))
    IN  loc \notin DOMAIN fs \/ ino[fs[loc]] = <<>>

\* A call of cacheData(keyname, L) up to the glob of the CacheRoot: the
\* regular files under data_location.  prev keeps what the call before it
\* left: its outcome, and the URLs of L that have no content in the cache.
Call(c, L) ==
    /\ proc[c] # "none"
    /\ pc[c] \in {"idle", "returned", "raised"}
    /\ L \in pool
    /\ prev' = [prev EXCEPT ![c] =
                  [outcome  |-> pc[c],
                   same     |-> pc[c] # "idle" /\ L = urls[c],
                   result   |-> IF pc[c] = "returned" /\ L = urls[c]
                                THEN result[c] ELSE <<>>,
                   failedOn |-> failedOn[c],
                   done     |-> Range(dls[c]) \ {failedOn[c]},
                   vacant   |-> {u \in Range(Parsed(L)) : NothingCached(u)}]]
    /\ urls' = [urls EXCEPT ![c] = L]
    /\ result' = [result EXCEPT ![c] = <<>>]
    /\ dls' = [dls EXCEPT ![c] = <<>>]
    /\ failedOn' = [failedOn EXCEPT ![c] = NoURL]
    /\ listing' = [listing EXCEPT ![c] =
                     {f \in DOMAIN fs : IsPrefix(RootLoc, f) /\ f # RootLoc}]
    /\ found' = [found EXCEPT ![c] = {}]
    /\ pc' = [pc EXCEPT ![c] = "check"]
    /\ \E o \in world.opts : opts' = [opts EXCEPT ![c] = o]
    /\ net' = [net EXCEPT ![c] = <<>>]
    /\ err' = [err EXCEPT ![c] = "none"]
    /\ UNCHANGED <<fs, ino, lock, private, proc, pool, missing, fd, tmp, world,
                   opener, pathVars, otherVars>>

\* open(in_file_name, 'rb') fails with an error that is not
\* FileNotFoundError: the file is there and the caller's user may not open it.
OpenDenied(c, f) == f \in DOMAIN fs /\ ~CanOpen(c, fs[f])

\* checkIfDataExists on one listed file, and parseURL of a file that passes.
\* The file may be gone by now (a temporary file renamed or removed):
\* FileNotFoundError is caught.  Closing the file drops the process's lock.
\* PermissionError is not caught and leaves cacheData.
CheckFile(c, f) ==
    /\ pc[c] = "check"
    /\ f \in listing[c]
    /\ IF OpenDenied(c, f)
       THEN /\ pc' = [pc EXCEPT ![c] = "raised"]
            /\ err' = [err EXCEPT ![c] = "PermissionError"]
            /\ listing' = [listing EXCEPT ![c] = {}]
            /\ found' = [found EXCEPT ![c] = {}]
            /\ UNCHANGED lock
       ELSE /\ listing' = [listing EXCEPT ![c] = @ \ {f}]
            /\ found' = [found EXCEPT ![c] =
                           IF checkIfDataExists(f)
                           THEN @ \cup {parseURL(data_location, PathOf(f))}
                           ELSE @]
            /\ lock' = IF f \in DOMAIN fs
                       THEN CloseBy(lock, fs[f], proc[c]) ELSE lock
            /\ UNCHANGED <<pc, err>>
    /\ UNCHANGED <<fs, ino, private, proc, pool, urls, missing, fd, tmp, result,
                   dls, failedOn, prev, world, opts, net, opener, pathVars, otherVars>>

\* use_requests == True and authentication_url != None
UsageError(o) == o.use_requests /\ o.authentication_url

\* The scan is over: missing_files is computed; with none missing the call
\* returns.  With some missing the options are looked at: ValueError('Cannot
\* use an authentication url with requests'); without requests and with
\* username or password the call installs its opener in the process.
Plan(c) ==
    /\ pc[c] = "check"
    /\ listing[c] = {}
    /\ IF MissingOf(urls[c], found[c]) # <<>> /\ UsageError(opts[c])
       THEN /\ pc' = [pc EXCEPT ![c] = "raised"]
            /\ err' = [err EXCEPT ![c] = "ValueError"]
            /\ UNCHANGED <<missing, result>>
            /\ UNCHANGED opener
       ELSE /\ Advance(c, MissingOf(urls[c], found[c]))
            /\ opener' =
                 IF /\ MissingOf(urls[c], found[c]) # <<>>
                    /\ ~opts[c].use_requests
                    /\ opts[c].creds # "none"
                 THEN [opener EXCEPT ![proc[c]] =
                         Installed(opts[c], MissingOf(urls[c], found[c]))]
                 ELSE opener
            /\ UNCHANGED err
    /\ found' = [found EXCEPT ![c] = {}]
    /\ UNCHANGED <<fs, ino, lock, private, proc, pool, urls, listing, fd, tmp,
                   dls, failedOn, prev, world, opts, net, pathVars, otherVars>>

\* open(out_filename, 'a+b') for the first missing URL: the file is created
\* empty when the name does not exist.  PermissionError leaves cacheData
\* when the file is there and the caller's user may not open it.
OpenLockfile(c) ==
    /\ pc[c] = "open"
    /\ IF OpenDenied(c, Resolve(generatePath(data_location, Head(missing[c]))))
       THEN /\ pc' = [pc EXCEPT ![c] = "raised"]
            /\ err' = [err EXCEPT ![c] = "PermissionError"]
            /\ failedOn' = [failedOn EXCEPT ![c] = Head(missing[c])]
            /\ missing' = [missing EXCEPT ![c] = <<>>]
            /\ UNCHANGED <<fs, ino, lock, private, fd, tmp>>
       ELSE /\ LET out  == generatePath(data_location, Head(missing[c]))
                   loc  == Resolve(out)
                   n    == NewIno(ino)
                   made == loc \notin DOMAIN fs
                   i    == IF made THEN n ELSE fs[loc]
               IN  SetFiles(IF made THEN (loc :> n) @@ fs ELSE fs,
                            IF made THEN (n :> <<>>) @@ ino ELSE ino,
                            IF made THEN (n :> "none") @@ lock ELSE lock,
                            [fd EXCEPT ![c] = i], tmp)
            /\ pc' = [pc EXCEPT ![c] = "lock"]
            /\ UNCHANGED <<err, failedOn, missing>>
    /\ UNCHANGED <<proc, pool, urls, listing, found, result, dls, prev, world,
                   opts, net, opener, pathVars, otherVars>>

\* fcntl.lockf(lockfile, LOCK_EX) returns: no other process holds a lock on
\* the file.  The file is read through the descriptor; when it holds data the
\* URL is skipped and the lockfile closed.
LockSkip(c) ==
    /\ pc[c] = "lock"
    /\ lock[fd[c]] \in {"none", proc[c]}
    /\ ~LockfileEmpty(ino[fd[c]])
    /\ SetFiles(fs, ino, [lock EXCEPT ![fd[c]] = "none"],
                [fd EXCEPT ![c] = NoIno], tmp)
    /\ Advance(c, Tail(missing[c]))
    /\ UNCHANGED <<proc, pool, urls, listing, found, dls, failedOn, prev,
                   world, opts, net, err, opener, pathVars, otherVars>>

\* ... when it is empty, atomic_write creates its temporary file and the
\* transfer of the URL starts: the transport sends its request and gets the
\* server's response.
LockWrite(c) ==
    /\ pc[c] = "lock"
    /\ lock[fd[c]] \in {"none", proc[c]}
    /\ LockfileEmpty(ino[fd[c]])
    /\ LET out == generatePath(data_location, Head(missing[c]))
           n   == NewIno(ino)
       IN  SetFiles((TmpLoc(c, out) :> n) @@ fs,
                    (n :> <<>>) @@ ino,
                    (n :> "none") @@ [lock EXCEPT ![fd[c]] = proc[c]],
                    fd, [tmp EXCEPT ![c] = n])
    /\ dls' = [dls EXCEPT ![c] = Append(@, Head(missing[c]))]
    /\ \E r \in world.resps :
          /\ CanAnswer([opts[c] EXCEPT
                          !.creds = Presented(c, Head(missing[c]))],
                       Head(missing[c]), r)
          /\ net' = [net EXCEPT ![c] = Append(@, r)]
    /\ pc' = [pc EXCEPT ![c] = "copy"]
    /\ UNCHANGED <<proc, pool, urls, listing, found, missing, result, failedOn,
                   prev, world, opts, err, opener, pathVars, otherVars>>

\* The response to the transfer the caller is in.
Response(c) == net[c][Len(net[c])]

\* The exception the transport raises at the start of the transfer the
\* caller is in: on the URL, or on the status of the response.
Rejection(c) ==
    IF UrlError(opts[c], Head(missing[c])) # "none"
    THEN UrlError(opts[c], Head(missing[c]))
    ELSE StatusError(opts[c], Response(c))

\* What the transport reads in the transfer the caller is in.
Incoming(c) == Served(Head(missing[c]), Response(c))

\* shutil.copyfileobj: the next chunk of the body goes to the temporary file.
CopyChunk(c) ==
    /\ pc[c] = "copy"
    /\ Rejection(c) = "none"
    /\ Len(ino[tmp[c]]) < Len(Incoming(c))
    /\ ino' = [ino EXCEPT ![tmp[c]] = Append(@, Incoming(c)[Len(@) + 1])]
    /\ UNCHANGED <<fs, lock, private, proc, pool, pc, urls, listing, found,
                   missing, fd, tmp, result, dls, failedOn, prev, world, opts,
                   net, err, opener, pathVars, otherVars>>

\* The transfer raises: on the URL, on the status of the response, or on a
\* failure of the
\* network before, between or after chunks (URLError, ConnectionError,
\* IncompleteRead, ...: "TransferError").  atomic_write unlinks its temporary file, the
\* lockfile is closed, the exception leaves cacheData.
TransferFails(c) ==
    /\ pc[c] = "copy"
    /\ LET out  == generatePath(data_location, Head(missing[c]))
           tloc == TmpLoc(c, out)
       IN  SetFiles(IF tloc \in DOMAIN fs /\ fs[tloc] = tmp[c]
                    THEN Restrict(fs, DOMAIN fs \ {tloc}) ELSE fs,
                    ino, CloseBy(lock, fd[c], proc[c]),
                    [fd EXCEPT ![c] = NoIno], [tmp EXCEPT ![c] = NoIno])
    /\ failedOn' = [failedOn EXCEPT ![c] = Head(missing[c])]
    /\ missing' = [missing EXCEPT ![c] = <<>>]
    /\ pc' = [pc EXCEPT ![c] = "raised"]
    /\ err' = [err EXCEPT ![c] =
                 IF Rejection(c) # "none" THEN Rejection(c)
                 ELSE "TransferError"]
    /\ UNCHANGED <<proc, pool, urls, listing, found, result, dls, prev,
                   world, opts, net, opener, pathVars, otherVars>>

\* copyfileobj has read to the end of what the response delivers (a
\* connection that closes early may close after any chunk, and read() then
\* returns nothing, as at the end of the body): atomic_write renames the
\* temporary file onto out_filename (overwrite=True: os.rename), the
\* lockfile is closed.
Commit(c) ==
    /\ pc[c] = "copy"
    /\ Rejection(c) = "none"
    /\ \/ Len(ino[tmp[c]]) = Len(Incoming(c))
       \/ Response(c).short
    /\ LET out  == generatePath(data_location, Head(missing[c]))
           tloc == TmpLoc(c, out)
           loc  == Resolve(out)
       IN  SetFiles((loc :> tmp[c]) @@ Restrict(fs, DOMAIN fs \ {tloc}),
                    ino, CloseBy(lock, fd[c], proc[c]),
                    [fd EXCEPT ![c] = NoIno], [tmp EXCEPT ![c] = NoIno])
    /\ Advance(c, Tail(missing[c]))
    /\ UNCHANGED <<proc, pool, urls, listing, found, dls, failedOn, prev,
                   world, opts, net, err, opener, pathVars, otherVars>>

----------------------------------------------------------------------------
(* The URLs and lists of the configurations *)

UA  == <<"http", ":", "/", "/", "h", "/", "a">>
UAp == <<"http", ":", "/", "/", "h", "/", "a", ";", "p">>
UE  == <<"http", ":", "/", "/", "h", "/", "e">>

UAB  == <<"http", ":", "/", "/", "h", "/", "a", "/", "b">>
UABq == <<"http", ":", "/", "/", "h", "/", "a", "/", "b", "?", "x">>
UABf == <<"http", ":", "/", "/", "h", "/", "a", "/", "b", "#", "f">>

UX1  == <<"http", ":", "/", "/", "h", "/", "x">>

\* Malformed: an http URL with one slash (no host), a text with no scheme.
UNoHost   == <<"http", ":", "/", "h", "/", "a">>
UNoScheme == <<"/", "h", "/", "a">>

\* Longest urlList of a sequential call.
MaxLen == 2

\* Well-formed absolute URLs: http://h<path>[;p][?x][#f].
PathURLs ==
    {geturl([scheme |-> <<"http">>, netloc |-> <<"h">>, path |-> p,
             params |-> a, query |-> q, fragment |-> f]) :
        p \in {<<"/", "a">>, <<"/", "e">>, <<"/", "a", "/", "b">>,
               <<"/", "/", "x">>},
        a \in {<<>>, <<"p">>}, q \in {<<>>, <<"x">>}, f \in {<<>>, <<"f">>}}

RECURSIVE ListsUpTo(_, _)
ListsUpTo(S, n) ==
    IF n = 0 THEN {<<>>}
    ELSE LET shorter == ListsUpTo(S, n - 1)
         IN  shorter \cup {Append(l, u) : l \in shorter, u \in S}

SeqLists == ListsUpTo({UA, UAp, UE}, MaxLen)

ConcLists == {<<UA>>, <<UAp, UA>>}

\* Batches whose last download (http://h/x sorts last) may fail after the
\* others are done.
BatchLists == {<<UX1, UAp>>, <<UX1, UE>>}

\* A server that answers every request with the resource; calls with the
\* default options.
Processes == {"p1", "p2"}

OneUser == [p \in Processes |-> "u1"]

QuietWorld ==
    [opts |-> {DefaultOptions}, resps |-> {OkResponse}, users |-> OneUser]

\* The default options, a server that answers every request with the
\* resource, connections that may close early.
LossyWorld ==
    [opts |-> {DefaultOptions},
     resps |-> {r \in Responses : r.status = "ok"}, users |-> OneUser]

\* The same, with the two processes run by two users of a shared cache.
SharedWorld ==
    [opts |-> {DefaultOptions}, resps |-> {OkResponse},
     users |-> [p \in Processes |-> IF p = "p1" THEN "u1" ELSE "u2"]]

InitCache(procs, pools, worlds) ==
    /\ fs = <<>>
    /\ ino = <<>>
    /\ lock = <<>>
    /\ private = <<>>
    /\ proc \in procs
    /\ pool \in pools
    /\ world \in worlds
    /\ opts = [c \in Callers |-> DefaultOptions]
    /\ net = [c \in Callers |-> <<>>]
    /\ err = [c \in Callers |-> "none"]
    /\ opener = [p \in Processes |-> NoOpener]
    /\ pc = [c \in Callers |-> "idle"]
    /\ urls = [c \in Callers |-> <<>>]
    /\ listing = [c \in Callers |-> {}]
    /\ found = [c \in Callers |-> {}]
    /\ missing = [c \in Callers |-> <<>>]
    /\ fd = [c \in Callers |-> NoIno]
    /\ tmp = [c \in Callers |-> NoIno]
    /\ result = [c \in Callers |-> <<>>]
    /\ dls = [c \in Callers |-> <<>>]
    /\ failedOn = [c \in Callers |-> NoURL]
    /\ prev = [c \in Callers |->
                 [outcome |-> "none", same |-> FALSE, result |-> <<>>,
                  failedOn |-> NoURL, done |-> {}, vacant |-> {}]]

----------------------------------------------------------------------------
(* The configuration file ~/.skdaccess.conf and getDataLocation *)

\* The names cacheData is called with.
Keynames == {"grace", "GRACE", "srtm"}

\* str.lower on those names.
lower(name) == IF name = "GRACE" THEN "grace" ELSE name

\* Calls of getDataLocation one process makes.
MaxCalls == 2

\* A configuration with no section, as ConfigParser() is before read() and as
\* read() leaves it on a file of no bytes.
NoConf == [root |-> "none", loc |-> <<>>]

\* conf.set(data_name, 'data_location', location), the section added when
\* it is not there.
SetLocation(conf, data_name, location) ==
    [conf EXCEPT !.loc = [n \in DOMAIN conf.loc \cup {data_name} |->
                            IF n = data_name THEN location ELSE conf.loc[n]]]

\* The directory of a data set that has no entry: under the root option of
\* section skdaccess when the configuration has one, else under ~/.skdaccess.
NewLocation(conf, data_name) ==
    <<IF conf.root = "none" THEN "~/.skdaccess" ELSE conf.root, data_name>>

\* getDataLocation up to its return or to the except branch: getConfig reads
\* the file, conf.get finds the entry or raises NoSectionError/NoOptionError.
getDataLocation(p, keyname) ==
    /\ rp[p] = "idle"
    /\ rcalls[p] < MaxCalls
    /\ rcalls' = [rcalls EXCEPT ![p] = @ + 1]
    /\ rname' = [rname EXCEPT ![p] = lower(keyname)]
    /\ rconf' = [rconf EXCEPT ![p] = conf_file]
    /\ rp' = [rp EXCEPT ![p] = IF lower(keyname) \in DOMAIN conf_file.loc
                               THEN "idle" ELSE "makedirs"]
    /\ UNCHANGED <<conf_file, rootdirs, writes>>

\* os.makedirs(data_location, exist_ok=True).
makedirs(p) ==
    /\ rp[p] = "makedirs"
    /\ rootdirs' = rootdirs \cup {NewLocation(rconf[p], rname[p])}
    /\ rp' = [rp EXCEPT ![p] = "set"]
    /\ UNCHANGED <<conf_file, rname, rconf, rcalls, writes>>

\* setDataLocation up to writeConfig: getConfig reads the file again, the
\* entry is set in the object read; the location is the one computed from
\* the first read.
setDataLocation(p) ==
    /\ rp[p] = "set"
    /\ rconf' = [rconf EXCEPT ![p] =
                   SetLocation(conf_file, rname[p],
                               NewLocation(rconf[p], rname[p]))]
    /\ rp' = [rp EXCEPT ![p] = "open"]
    /\ UNCHANGED <<conf_file, rootdirs, rname, rcalls, writes>>

\* writeConfig: open(config_location, "w") leaves a file of no bytes.
openConfig(p) ==
    /\ rp[p] = "open"
    /\ conf_file' = NoConf
    /\ rp' = [rp EXCEPT ![p] = "write"]
    /\ UNCHANGED <<rootdirs, rname, rconf, rcalls, writes>>

\* writeConfig: conf.write and close store the object the process holds.
writeConfig(p) ==
    /\ rp[p] = "write"
    /\ conf_file' = rconf[p]
    /\ writes' = [writes EXCEPT ![rname[p]] = @ + 1]
    /\ rp' = [rp EXCEPT ![p] = "idle"]
    /\ UNCHANGED <<rootdirs, rname, rconf, rcalls>>

----------------------------------------------------------------------------
(* param_class.py: AutoList and its subclasses *)

AutoListClasses ==
    {"AutoList", "AutoListSubset", "AutoListPermute", "AutoListRemove"}

Items == {"x", "y", "z"}

\* The longest list an AutoList is constructed with.
MaxItems == 3

\* The lists an AutoList is constructed with.
ItemLists == UNION {[1..n -> Items] : n \in 0..MaxItems}

\* itertools.compress(data, selectors) as a list.
RECURSIVE compress(_, _)
compress(data, index) ==
    IF data = <<>> THEN <<>>
    ELSE (IF Head(index) = 1 THEN <<Head(data)>> ELSE <<>>)
         \o compress(Tail(data), Tail(index))

\* What random.shuffle can leave in a list.
Shuffles(list) ==
    {[i \in 1..Len(list) |-> list[q[i]]] : q \in Permutations(1..Len(list))}

\* AutoList.__init__ (and AutoListRemove.__init__): val_init and val_list
\* both refer to the list object the caller passed, here object 0 of the
\* heap; object 1 is the list the last perturb built.
NewAutoList(cls, val_list) ==
    [cls |-> cls, val_init |-> 0, val_list |-> 0, n |-> -1,
     heap |-> <<val_list, <<>>>>]

\* heap with object ref replaced (sequences are indexed from 1).
Store(heap, ref, list) == [heap EXCEPT ![ref + 1] = list]

\* The list a reference names.
Deref(obj, ref) == obj.heap[ref + 1]

\* AutoList.perturb.
perturbAutoList(obj) == {obj}

\* AutoListSubset.perturb: a new list object, the elements of val_init at
\* the indices drawn 1.
perturbSubset(obj) ==
    {[obj EXCEPT !.val_list = 1,
                 !.heap = Store(obj.heap, 1,
                                compress(Deref(obj, obj.val_init), index))] :
       index \in [1..Len(Deref(obj, obj.val_init)) -> {0, 1}]}

\* AutoListPermute.perturb: random.shuffle on the object val_list names.
perturbPermute(obj) ==
    {[obj EXCEPT !.heap = Store(obj.heap, obj.val_list, list)] :
       list \in Shuffles(Deref(obj, obj.val_list))}

\* The index AutoListRemove.perturb moves to.
NextRemoved(obj) ==
    IF obj.n + 1 >= Len(Deref(obj, obj.val_init)) THEN 0 ELSE obj.n + 1

\* AutoListRemove.perturb: a new list object without element n of val_init;
\* on an empty val_init index[self.n] = 0 raises IndexError after n is set.
perturbRemove(obj) ==
    IF Deref(obj, obj.val_init) = <<>>
    THEN {[obj EXCEPT !.n = 0]}
    ELSE {[obj EXCEPT !.n = NextRemoved(obj),
                      !.val_list = 1,
                      !.heap = Store(obj.heap, 1,
                          compress(Deref(obj, obj.val_init),
                                   [i \in 1..Len(Deref(obj, obj.val_init)) |->
                                      IF i = NextRemoved(obj) + 1 THEN 0 ELSE 1]))]}

\* DataFetcherBase.perturb on a fetcher whose parameter is the object.
AutoListPerturb ==
    /\ autolist' \in
         CASE autolist.cls = "AutoList" -> perturbAutoList(autolist)
           [] autolist.cls = "AutoListSubset" -> perturbSubset(autolist)
           [] autolist.cls = "AutoListPermute" -> perturbPermute(autolist)
           [] autolist.cls = "AutoListRemove" -> perturbRemove(autolist)
    /\ ahist' = [ahist EXCEPT !.last = "perturb"]

\* DataFetcherBase.reset: AutoList.reset, and AutoListRemove.reset that also
\* sets n to -1.
AutoListReset ==
    /\ autolist' = [autolist EXCEPT
                      !.val_list = autolist.val_init,
                      !.n = IF autolist.cls = "AutoListRemove" THEN -1 ELSE @]
    /\ ahist' = [ahist EXCEPT !.last = "reset"]

\* No AutoList object.
NoLists ==
    /\ autolist = NewAutoList("AutoList", <<>>)
    /\ ahist = [given |-> <<>>, last |-> "init"]

----------------------------------------------------------------------------
(* param_class.py: AutoParamMinMax.  Values are counted in tenths. *)

\* The largest value of extreme an object is constructed with.
MaxExtreme == 3

\* The perturb calls made between two resets.
MaxPerturbs == 6

\* AutoParamMinMax.__init__.
NewParam(val_init, val_min, val_max, decimals, extreme) ==
    [val |-> val_init, val_init |-> val_init, val_min |-> val_min,
     val_max |-> val_max, n |-> 0, n_max |-> extreme, decimals |-> decimals]

\* The arguments of the constructor: val_min <= val_max (random.randint
\* raises on an empty range), whole numbers.
ParamArgs ==
    {a \in [val_init : {0, 10}, val_min : {0, 10}, val_max : {10, 20},
            decimals : {0, 1}, extreme : 0..MaxExtreme] :
       a.val_min <= a.val_max}

\* The test of perturb's first branch.
IsExtremeTurnLate(obj) == obj.n = obj.n_max

IsExtremeTurn(obj) == obj.n = obj.n_max - 1

\* random.sample([val_min, val_max], 1)[0].
Extremes(obj) == {obj.val_min, obj.val_max}

\* What the other branch can draw: random.randint(val_min, val_max) for
\* decimals = 0; for decimals = 1 a value of [val_min - 0.05, val_max + 0.05)
\* rounded to one decimal, which round() may take one tenth below val_min.
Drawn(obj) ==
    IF obj.decimals = 0
    THEN {v \in obj.val_min..obj.val_max : v % 10 = 0}
    ELSE (obj.val_min - 1)..obj.val_max

\* AutoParamMinMax.perturb.
AutoParamMinMaxPerturb ==
    /\ phist.k < MaxPerturbs
    /\ IF IsExtremeTurn(param)
       THEN \E v \in Extremes(param) :
               param' = [param EXCEPT !.val = v, !.n = 0]
       ELSE \E v \in Drawn(param) :
               param' = [param EXCEPT !.val = v,
                                      !.n = IF param.n_max > 0 THEN @ + 1 ELSE @]
    /\ phist' = [k |-> phist.k + 1, last |-> "perturb",
                 forced |-> IsExtremeTurn(param)]

\* AutoParamMinMax.reset.
AutoParamMinMaxReset ==
    /\ param' = [param EXCEPT !.n = 0, !.val = param.val_init]
    /\ phist' = [k |-> 0, last |-> "reset", forced |-> FALSE]

\* No AutoParamMinMax object.
NoParams ==
    /\ param = NewParam(0, 0, 10, 0, 0)
    /\ phist = [k |-> 0, last |-> "init", forced |-> FALSE]

----------------------------------------------------------------------------
(* BinnedTecService.py.  Time is counted in steps of five minutes. *)

\* The keys addTecData hands out.
MaxKeys == 1

\* The sessions created in one run of the server.
MaxSessions == 2

\* The next(key) calls logged for one key between two create calls.
MaxReturns == 3

\* The latest endDT of a session.
MaxT == 3

Keys == 1..MaxKeys

\* The arguments of create that matter to the iteration, and the times for
\* which the Madrigal data (fullData) holds records: sessions with data up
\* to endDT, with timeSteps = 2, with data that ends early, and one that
\* starts after endDT.
TecArgs ==
    {[startDT |-> 1, endDT |-> MaxT, fiveMinSteps |-> 1, timeSteps |-> 1,
      fullData |-> 0..MaxT],
     [startDT |-> 0, endDT |-> MaxT, fiveMinSteps |-> 1, timeSteps |-> 2,
      fullData |-> 0..MaxT],
     [startDT |-> 0, endDT |-> MaxT, fiveMinSteps |-> 1, timeSteps |-> 1,
      fullData |-> 0..1],
     [startDT |-> 1, endDT |-> 0, fiveMinSteps |-> 1, timeSteps |-> 1,
      fullData |-> 0..MaxT]}

\* The arguments BinnedTecData.__init__ accepts.
ValidTecArgs == {a \in TecArgs : a.endDT >= a.startDT}

\* filterData: a DataFrame when fullData has a record in [sDT, eDT], else
\* None.
filterData(obj, sDT, eDT) ==
    IF \E t \in obj.fullData : sDT <= t /\ t <= eDT THEN "DataFrame" ELSE "None"

\* The step of the iteration: 5 * fiveMinSteps * timeSteps minutes.
StepOnlyFive(obj) == obj.fiveMinSteps

StepOf(obj) == obj.fiveMinSteps * obj.timeSteps

\* BinnedTecData.updateCache.
updateCache(obj) ==
    IF obj.cachedData = "None" THEN obj
    ELSE [obj EXCEPT
            !.cachedDT = obj.lastDT,
            !.stale = FALSE,
            !.lastDT = obj.lastDT + StepOf(obj),
            !.cachedData = IF obj.lastDT >= obj.endDT THEN "None"
                           ELSE filterData(obj, obj.lastDT,
                                           obj.lastDT + obj.fiveMinSteps)]

\* BinnedTecData.__init__: cachedData is '' and updateCache is called.
BinnedTecData(a) ==
    updateCache([startDT |-> a.startDT, endDT |-> a.endDT,
                 fiveMinSteps |-> a.fiveMinSteps, timeSteps |-> a.timeSteps,
                 fullData |-> a.fullData, lastDT |-> a.startDT,
                 cachedDT |-> a.startDT, cachedData |-> "", stale |-> FALSE])

\* next(key) has returned v, <<>> for None and <<dt>> for the window of
\* datetime dt: it is logged.
Logged(key, v) ==
    [tlog EXCEPT !.rets[key] = Append(@, v),
                 !.everNone[key] = @ \/ v = <<>>,
                 !.afterNone[key] = @ \/ (v # <<>> /\ tlog.everNone[key])]

\* create: addTecData takes the lowest key that is not in cacheDict, builds
\* the object and stores it.
create(a) ==
    /\ rpc.at = "idle"
    /\ tlog.created < MaxSessions
    /\ \E key \in Keys :
          /\ key \notin DOMAIN cacheDict
          /\ \A k \in 1..(key - 1) : k \in DOMAIN cacheDict
          /\ cacheDict' = [k \in DOMAIN cacheDict \cup {key} |->
                             IF k = key THEN BinnedTecData(a) ELSE cacheDict[k]]
          /\ tlog' = [tlog EXCEPT !.created = @ + 1,
                                  !.rets[key] = <<>>,
                                  !.start[key] = a.startDT,
                                  !.step[key] = a.fiveMinSteps * a.timeSteps]
    /\ rpc' = [rpc EXCEPT !.err = "none"]
    /\ UNCHANGED upd

\* next(key), pop line 346: None for a key that is not in cacheDict.
popCheck(key) ==
    /\ rpc.at = "idle"
    /\ Len(tlog.rets[key]) < MaxReturns
    /\ IF key \in DOMAIN cacheDict
       THEN /\ rpc' = [at |-> "wait", key |-> key, err |-> "none"]
            /\ UNCHANGED tlog
       ELSE /\ rpc' = [at |-> "idle", key |-> key, err |-> "none"]
            /\ tlog' = Logged(key, <<>>)
    /\ UNCHANGED <<cacheDict, upd>>

\* pop line 348: the loop ends when cachedData is not a string; a key that
\* has left cacheDict raises KeyError.
popWait ==
    /\ rpc.at = "wait"
    /\ IF rpc.key \notin DOMAIN cacheDict
       THEN rpc' = [rpc EXCEPT !.at = "idle", !.err = "KeyError"]
       ELSE /\ cacheDict[rpc.key].cachedData # ""
            /\ rpc' = [rpc EXCEPT !.at = "take"]
    /\ UNCHANGED <<cacheDict, upd, tlog>>

\* pop lines 352-363: None at the end of the iteration, else the window is
\* returned and cachedData set to ''; a key that has left cacheDict raises
\* KeyError.
popTake ==
    /\ rpc.at = "take"
    /\ IF rpc.key \notin DOMAIN cacheDict
       THEN /\ rpc' = [rpc EXCEPT !.at = "idle", !.err = "KeyError"]
            /\ UNCHANGED <<cacheDict, tlog>>
       ELSE /\ rpc' = [rpc EXCEPT !.at = "idle"]
            /\ IF cacheDict[rpc.key].cachedData = "None"
               THEN /\ tlog' = Logged(rpc.key, <<>>)
                    /\ UNCHANGED cacheDict
               ELSE /\ tlog' = Logged(rpc.key, <<cacheDict[rpc.key].cachedDT>>)
                    /\ cacheDict' = [cacheDict EXCEPT ![rpc.key].cachedData = ""]
    /\ UNCHANGED upd

\* BinnedTecUpdater.run calls update: the loop over cacheDict.keys() begins.
updateStart ==
    /\ upd.at = "sleep"
    /\ upd' = [at |-> "loop", used |-> Cardinality(DOMAIN cacheDict),
               keys |-> DOMAIN cacheDict, keysToDelete |-> {}]
    /\ UNCHANGED <<cacheDict, rpc, tlog>>

\* The key the loop takes next.
NextKey == CHOOSE k \in upd.keys : \A j \in upd.keys : k <= j

\* One turn of the loop of update.  The iterator of the dictionary view
\* raises RuntimeError when the dictionary has changed size since the loop
\* began; run does not catch it and the thread ends.
updateNext ==
    /\ upd.at = "loop"
    /\ IF Cardinality(DOMAIN cacheDict) # upd.used
       THEN /\ upd' = [upd EXCEPT !.at = "dead"]
            /\ UNCHANGED cacheDict
       ELSE IF upd.keys = {}
       THEN /\ upd' = [upd EXCEPT !.at = "delete"]
            /\ UNCHANGED cacheDict
       ELSE /\ upd' = [upd EXCEPT
                         !.keys = @ \ {NextKey},
                         !.keysToDelete =
                            IF /\ cacheDict[NextKey].cachedData # ""
                               /\ cacheDict[NextKey].stale
                            THEN @ \cup {NextKey} ELSE @]
            /\ cacheDict' = [cacheDict EXCEPT ![NextKey] =
                               IF @.cachedData = "" THEN updateCache(@) ELSE @]
    /\ UNCHANGED <<rpc, tlog>>

\* update lines 379-380, and run goes to sleep.
updateDelete ==
    /\ upd.at = "delete"
    /\ cacheDict' = [k \in DOMAIN cacheDict \ upd.keysToDelete |-> cacheDict[k]]
    /\ upd' = [upd EXCEPT !.at = "sleep"]
    /\ UNCHANGED <<rpc, tlog>>

\* More than cacheTimeOut (one hour) passes: every updateDT is old.
HourPasses ==
    /\ \E k \in DOMAIN cacheDict : ~cacheDict[k].stale
    /\ cacheDict' = [k \in DOMAIN cacheDict |-> [cacheDict[k] EXCEPT !.stale = TRUE]]
    /\ UNCHANGED <<rpc, upd, tlog>>

\* The server as main starts it: an empty cache, the updater started.
StartedTec ==
    /\ cacheDict = <<>>
    /\ rpc = [at |-> "idle", key |-> 1, err |-> "none"]
    /\ upd = [at |-> "sleep", used |-> 0, keys |-> {}, keysToDelete |-> {}]
    /\ tlog = [created |-> 0,
               rets |-> [k \in Keys |-> <<>>],
               start |-> [k \in Keys |-> 0],
               step |-> [k \in Keys |-> 1],
               everNone |-> [k \in Keys |-> FALSE],
               afterNone |-> [k \in Keys |-> FALSE]]

\* No TEC server.
NoTec == StartedTec

\* No process resolves a data set.
NoRegistry ==
    /\ conf_file = NoConf
    /\ rootdirs = {}
    /\ rp = [p \in Processes |-> "idle"]
    /\ rname = [p \in Processes |-> "grace"]
    /\ rconf = [p \in Processes |-> NoConf]
    /\ rcalls = [p \in Processes |-> 0]
    /\ writes = [n \in {lower(k) : k \in Keynames} |-> 0]

\* What is outside the cache and the path mapping is at rest.
Apart == NoRegistry /\ NoLists /\ NoParams /\ NoTec

NoPaths == ua = <<>> /\ ub = <<>> /\ pa = <<>> /\ pb = <<>>

\* Two callers on one CacheRoot: threads of one process, or two processes.
Init ==
    /\ InitCache({[c \in Callers |-> "p1"],
                  [c \in Callers |-> IF c = "c1" THEN "p1" ELSE "p2"]},
                 {ConcLists}, {QuietWorld})
    /\ NoPaths /\ Apart

\* One caller, call after call.
InitSeq ==
    /\ InitCache({[c \in Callers |-> IF c = "c1" THEN "p1" ELSE "none"]},
                 {SeqLists}, {QuietWorld})
    /\ NoPaths /\ Apart

\* One caller that calls again and again with one list of one URL.
InitOne ==
    /\ InitCache({[c \in Callers |-> IF c = "c1" THEN "p1" ELSE "none"]},
                 {{<<u>>} : u \in PathURLs}, {QuietWorld})
    /\ NoPaths /\ Apart

\* One caller whose lists name a URL alone, with a query string and with a
\* fragment.
InitQuery ==
    /\ InitCache({[c \in Callers |-> IF c = "c1" THEN "p1" ELSE "none"]},
                 {ListsUpTo({UAB, UABq, UABf}, MaxLen)}, {QuietWorld})
    /\ NoPaths /\ Apart

\* One caller, batches of two URLs, on connections that deliver
\* the whole body or on connections that may close early.
InitBatch ==
    /\ InitCache({[c \in Callers |-> IF c = "c1" THEN "p1" ELSE "none"]},
                 {BatchLists}, {QuietWorld, LossyWorld})
    /\ NoPaths /\ Apart

\* Lists of one and two URLs, with and without a body.
LossyLists == {<<UA>>, <<UE>>, <<UAp, UA>>}

\* One caller, call after call, on connections that may close early.
InitLossy ==
    /\ InitCache({[c \in Callers |-> IF c = "c1" THEN "p1" ELSE "none"]},
                 {LossyLists}, {LossyWorld})
    /\ NoPaths /\ Apart

\* Two threads of one process that call for one URL, on connections that
\* deliver the whole body or on connections that may close early.
InitReaders ==
    /\ InitCache({[c \in Callers |-> "p1"]},
                 {{<<UA>>}}, {QuietWorld, LossyWorld})
    /\ NoPaths /\ Apart

\* Two processes run by two users on one CacheRoot.
InitUsers ==
    /\ InitCache({[c \in Callers |-> IF c = "c1" THEN "p1" ELSE "p2"]},
                 {ConcLists}, {SharedWorld})
    /\ NoPaths /\ Apart

\* Either transport, a server that answers every request with the resource.
TransportWorld ==
    [opts |-> {o \in Options : ~o.authentication_url /\ o.creds = "none"},
     resps |-> {OkResponse}, users |-> OneUser]

\* One caller whose lists name malformed URLs.
InitMalformed ==
    /\ InitCache({[c \in Callers |-> IF c = "c1" THEN "p1" ELSE "none"]},
                 {ListsUpTo({UA, UNoHost, UNoScheme}, MaxLen)},
                 {TransportWorld})
    /\ NoPaths /\ Apart

\* Every combination of options, a server that may answer with any status
\* and a connection that may close early.
OpenWorld == [opts |-> Options, resps |-> Responses, users |-> OneUser]

\* One caller, any options, any response.
InitNet ==
    /\ InitCache({[c \in Callers |-> IF c = "c1" THEN "p1" ELSE "none"]},
                 {ConcLists}, {OpenWorld})
    /\ NoPaths /\ Apart

Next ==
    \E c \in Callers :
        \/ \E L \in pool : Call(c, L)
        \/ \E f \in listing[c] : CheckFile(c, f)
        \/ Plan(c)
        \/ OpenLockfile(c)
        \/ LockSkip(c)
        \/ LockWrite(c)
        \/ CopyChunk(c)
        \/ TransferFails(c)
        \/ Commit(c)

Spec == Init /\ [][Next]_vars

SpecSeq == InitSeq /\ [][Next]_vars

SpecOne == InitOne /\ [][Next]_vars

SpecQuery == InitQuery /\ [][Next]_vars

SpecNet == InitNet /\ [][Next]_vars

SpecBatch == InitBatch /\ [][Next]_vars

SpecUsers == InitUsers /\ [][Next]_vars

SpecLossy == InitLossy /\ [][Next]_vars

SpecReaders == InitReaders /\ [][Next]_vars

SpecMalformed == InitMalformed /\ [][Next]_vars

\* The steps of caller c inside cacheData.
Step(c) ==
    \/ \E f \in listing[c] : CheckFile(c, f)
    \/ Plan(c)
    \/ OpenLockfile(c)
    \/ LockSkip(c)
    \/ LockWrite(c)
    \/ CopyChunk(c)
    \/ TransferFails(c)
    \/ Commit(c)

\* Every caller makes one call.
NextOnce ==
    \E c \in Callers :
        \/ \E L \in pool : pc[c] = "idle" /\ Call(c, L)
        \/ Step(c)

\* lockf of caller c blocks: another process holds the lock on the file.
Blocked(c) == pc[c] = "lock" /\ lock[fd[c]] \notin {"none", proc[c]}

\* Caller c is inside cacheData and Step(c) is enabled: in the scan, at
\* open and in the transfer a step is always possible, at lockf when the
\* call does not block.
CanStep(c) ==
    \/ pc[c] \in {"check", "open", "copy"}
    \/ pc[c] = "lock" /\ ~Blocked(c)

\* Two callers, one call each, scheduled fairly: a caller that can take a
\* step takes it (the scan, the system calls and the transfer all finish,
\* and lockf returns once no other process holds the lock).  A call takes
\* finitely many steps, so weak fairness of Step(c) is stated as: c is
\* again and again at a place where Step(c) is not enabled.
SpecFair ==
    /\ Init
    /\ [][NextOnce]_vars
    /\ \A c \in Callers : []<>~CanStep(c)

----------------------------------------------------------------------------
(* The path mapping on its own: generatePath(urlparse(url)) for two URLs *)

InitPath ==
    /\ InitCache({[c \in Callers |-> "none"]}, {{}}, {QuietWorld})
    /\ ua \in PathURLs
    /\ ub \in PathURLs
    /\ pa = <<>>
    /\ pb = <<>>
    /\ Apart

\* file: URLs and bare local paths.
LocalURLs ==
    {<<"file", ":", "/", "/", "/", "a">>,
     <<"file", ":", "/", "/", "/", "a", "/", "b">>,
     <<"file", ":", "/", "a">>,
     <<"file", ":", "/", "/", "h", "/", "a">>,
     <<"/", "a">>,
     <<"/", "a", "/", "b">>}

InitLocal ==
    /\ InitCache({[c \in Callers |-> "none"]}, {{}}, {QuietWorld})
    /\ ua \in LocalURLs
    /\ ub \in LocalURLs
    /\ pa = <<>>
    /\ pb = <<>>
    /\ Apart

MapA ==
    /\ pa = <<>>
    /\ pa' = generatePath(data_location, urlparse(ua))
    /\ UNCHANGED <<cacheVars, ua, ub, pb, otherVars>>

MapB ==
    /\ pb = <<>>
    /\ pb' = generatePath(data_location, urlparse(ub))
    /\ UNCHANGED <<cacheVars, ua, ub, pa, otherVars>>

NextPath == MapA \/ MapB

SpecPath == InitPath /\ [][NextPath]_vars

SpecLocal == InitLocal /\ [][NextPath]_vars

----------------------------------------------------------------------------
(* Processes that resolve data sets through one configuration file *)

\* Two processes; the file has no data_location entry; the root option of
\* section skdaccess is set or not.
InitRegistry ==
    /\ InitCache({[c \in Callers |-> "none"]}, {{}}, {QuietWorld})
    /\ NoPaths
    /\ conf_file \in {NoConf, [root |-> "/alt", loc |-> <<>>]}
    /\ rootdirs = {}
    /\ rp = [p \in Processes |-> "idle"]
    /\ rname = [p \in Processes |-> "grace"]
    /\ rconf = [p \in Processes |-> NoConf]
    /\ rcalls = [p \in Processes |-> 0]
    /\ writes = [n \in {lower(k) : k \in Keynames} |-> 0]
    /\ NoLists /\ NoParams /\ NoTec

NextRegistry ==
    /\ \E p \in Processes :
          \/ \E k \in Keynames : getDataLocation(p, k)
          \/ makedirs(p)
          \/ setDataLocation(p)
          \/ openConfig(p)
          \/ writeConfig(p)
    /\ UNCHANGED <<cacheVars, pathVars, listVars, paramVars, tecVars>>

SpecRegistry == InitRegistry /\ [][NextRegistry]_vars

----------------------------------------------------------------------------
(* An AutoList object that is perturbed and reset *)

InitLists ==
    /\ InitCache({[c \in Callers |-> "none"]}, {{}}, {QuietWorld})
    /\ NoPaths /\ NoRegistry /\ NoParams /\ NoTec
    /\ \E cls \in AutoListClasses, val_list \in ItemLists :
          /\ autolist = NewAutoList(cls, val_list)
          /\ ahist = [given |-> val_list, last |-> "init"]

NextLists ==
    /\ AutoListPerturb \/ AutoListReset
    /\ UNCHANGED <<cacheVars, pathVars, regVars, paramVars, tecVars>>

SpecLists == InitLists /\ [][NextLists]_vars

----------------------------------------------------------------------------
(* An AutoParamMinMax object that is perturbed and reset *)

InitParams ==
    /\ InitCache({[c \in Callers |-> "none"]}, {{}}, {QuietWorld})
    /\ NoPaths /\ NoRegistry /\ NoLists /\ NoTec
    /\ \E a \in ParamArgs :
          param = NewParam(a.val_init, a.val_min, a.val_max, a.decimals,
                           a.extreme)
    /\ phist = [k |-> 0, last |-> "init", forced |-> FALSE]

NextParams ==
    /\ AutoParamMinMaxPerturb \/ AutoParamMinMaxReset
    /\ UNCHANGED <<cacheVars, pathVars, regVars, listVars, tecVars>>

SpecParams == InitParams /\ [][NextParams]_vars

----------------------------------------------------------------------------
(* The binned TEC server: the RPC thread and the updater thread *)

InitTec ==
    /\ InitCache({[c \in Callers |-> "none"]}, {{}}, {QuietWorld})
    /\ NoPaths /\ NoRegistry /\ NoLists /\ NoParams
    /\ StartedTec

NextTec ==
    /\ \/ \E a \in ValidTecArgs : create(a)
       \/ \E key \in Keys : popCheck(key)
       \/ popWait
       \/ popTake
       \/ updateStart
       \/ updateNext
       \/ updateDelete
       \/ HourPasses
    /\ UNCHANGED <<cacheVars, pathVars, regVars, listVars, paramVars>>

SpecTec == InitTec /\ [][NextTec]_vars

\* The same, with both threads scheduled fairly: a thread that can take a
\* step of pop or of update takes it.
SpecTecFair ==
    /\ SpecTec
    /\ WF_vars((popWait \/ popTake)
               /\ UNCHANGED <<cacheVars, pathVars, regVars, listVars, paramVars>>)
    /\ WF_vars((updateStart \/ updateNext \/ updateDelete)
               /\ UNCHANGED <<cacheVars, pathVars, regVars, listVars, paramVars>>)

----------------------------------------------------------------------------
(* Claims *)

\* The file a caller in the download-and-write section is writing for.
Target(c) == Resolve(generatePath(data_location, Head(missing[c])))

\* The final paths of the URLs of the model.
AllURLs == PathURLs \cup {UA, UAp, UE, UAB, UABq, UABf, UX1}

FinalLocs == {Resolve(generatePath(data_location, urlparse(u))) : u \in AllURLs}

\* C1: two processes that each make their first call for the same missing URL
\* (non-empty body) perform, over every interleaving, exactly one download of
\* it: when both have returned, one transfer was started in all.
C1OneDownload ==
    (/\ proc["c1"] # proc["c2"]
     /\ \A c \in Callers :
          pc[c] = "returned" /\ prev[c].outcome = "idle" /\ urls[c] = <<UA>>)
    => Len(dls["c1"]) + Len(dls["c2"]) = 1

\* C2: at every moment at most one caller is inside the download-and-write
\* section for a given target path, threads of one process or processes.
C2OneWriter ==
    \A c, d \in Callers :
        (c # d /\ pc[c] = "copy" /\ pc[d] = "copy") => Target(c) # Target(d)

\* C3 as stated: a call that returns normally, repeated with the same urlList
\* and nothing else touching the CacheRoot, downloads nothing the second time
\* and returns the same paths, for any urlList.
C3Idempotent ==
    \A c \in Callers :
        (pc[c] = "returned" /\ prev[c].outcome = "returned" /\ prev[c].same)
        => dls[c] = <<>> /\ result[c] = prev[c].result

\* C3 amended: the same, when the first call left a file that is not empty
\* for every URL of the list.
C3IdempotentNonEmpty ==
    \A c \in Callers :
        (/\ pc[c] = "returned" /\ prev[c].outcome = "returned" /\ prev[c].same
         /\ prev[c].vacant = {})
        => dls[c] = <<>> /\ result[c] = prev[c].result

\* A repeated call of a two-URL list has returned; the first call had left
\* a file with content for both URLs.
C3Witness ==
    \E c \in Callers :
        /\ pc[c] = "returned" /\ prev[c].outcome = "returned" /\ prev[c].same
        /\ Len(urls[c]) = 2 /\ urls[c][1] # urls[c][2]
        /\ prev[c].vacant = {}
        /\ Len(prev[c].result) = 2

\* C4: the returned list is as long as urlList and its i-th element is the
\* local path of the i-th URL, whatever was cached and in whatever order the
\* missing URLs were downloaded.
C4OrderPreserved ==
    \A c \in Callers :
        pc[c] = "returned" =>
            /\ Len(result[c]) = Len(urls[c])
            /\ \A i \in 1..Len(urls[c]) :
                 result[c][i] = generatePath(data_location, urlparse(urls[c][i]))

\* A call has returned whose two URLs were both downloaded, the second of the
\* list first.
C4Witness ==
    \E c \in Callers :
        /\ pc[c] = "returned"
        /\ Len(urls[c]) = 2 /\ Len(dls[c]) = 2
        /\ dls[c][1] = urlparse(urls[c][2])
        /\ dls[c][2] = urlparse(urls[c][1])

\* C5: when cacheData returns normally, the returned path of every URL of the
\* list names an existing file that holds the complete body of that URL
\* (stated for the URLs whose body is not empty).
C5ReturnedFilesComplete ==
    \A c \in Callers :
        pc[c] = "returned" =>
            \A i \in 1..Len(urls[c]) :
                BodyLen(urlparse(urls[c][i])) > 0 =>
                    /\ Resolve(result[c][i]) \in DOMAIN fs
                    /\ ino[fs[Resolve(result[c][i])]] = Body(urlparse(urls[c][i]))

\* The file at a location is absent, empty or the whole body of a URL.
WholeOrNothing(loc) ==
    loc \in DOMAIN fs =>
        \/ ino[fs[loc]] = <<>>
        \/ \E u \in AllURLs : ino[fs[loc]] = Body(urlparse(u))

\* C6: when the transfer of a missing URL u fails and cacheData raises, the
\* file at path(u) is absent, empty or complete, and the next call that
\* requests u attempts the download of u again: if that call returns, it has
\* started a transfer of u.
C6RetryAfterFailure ==
    \A c \in Callers :
        /\ pc[c] = "raised" =>
             WholeOrNothing(Resolve(generatePath(data_location, failedOn[c])))
        /\ (/\ pc[c] = "returned" /\ prev[c].outcome = "raised"
            /\ prev[c].failedOn \in Range(Parsed(urls[c])))
           => prev[c].failedOn \in Range(dls[c])

\* No step changes the content of a file that stays at a final path: what
\* is there is replaced whole, by a rename, or not at all.
NeverWrittenInPlace ==
    \A loc \in FinalLocs :
        (loc \in DOMAIN fs /\ loc \in DOMAIN fs' /\ fs'[loc] = fs[loc])
        => ino'[fs[loc]] = ino[fs[loc]]

\* C7: under any interleaving of writers and scans, the file at a URL's
\* final path is never a file still being written and is never written in
\* place: it is absent, empty, or all that a finished transfer delivered,
\* which is the complete body wherever connections deliver the whole body.
C7NoPartialAtFinalPath ==
    /\ [](\A c \in Callers : tmp[c] # NoIno => \A loc \in FinalLocs :
            loc \in DOMAIN fs => fs[loc] # tmp[c])
    /\ [](world = QuietWorld => \A loc \in FinalLocs : WholeOrNothing(loc))
    /\ [][NeverWrittenInPlace]_vars

\* A scan is about to read the final path while a writer of that path has
\* copied part of the body to its temporary file.
C7Witness ==
    \E c, d \in Callers :
        /\ c # d
        /\ pc[c] = "check" /\ pc[d] = "copy"
        /\ Target(d) \in listing[c]
        /\ Len(ino[tmp[d]]) > 0 /\ Len(ino[tmp[d]]) < BodyLen(Head(missing[d]))

\* C8: two distinct well-formed absolute URLs never map to the same local
\* path.
C8Injective ==
    (pa # <<>> /\ pb # <<>> /\ ua # ub) => pa # pb

\* C9: every file cacheData creates and every path it returns lies inside
\* the CacheRoot.
C9InsideRoot ==
    /\ \A loc \in DOMAIN fs : IsPrefix(RootLoc, loc)
    /\ \A c \in Callers : \A i \in 1..Len(result[c]) :
          IsPrefix(RootLoc, Resolve(result[c][i]))

\* C10: one call starts the transfer of a URL at most once, however often
\* the list names it, and returns path(u) at every position of u.
C10Duplicates ==
    \A c \in Callers :
        /\ \A i, j \in 1..Len(dls[c]) : i # j => dls[c][i] # dls[c][j]
        /\ pc[c] = "returned" =>
             \A i \in 1..Len(urls[c]) :
                 result[c][i] = generatePath(data_location, urlparse(urls[c][i]))

\* A call with the same missing URL twice has returned after one transfer.
C10Witness ==
    \E c \in Callers :
        /\ pc[c] = "returned"
        /\ Len(urls[c]) = 2 /\ urls[c][1] = urls[c][2]
        /\ dls[c] = <<urlparse(urls[c][1])>>

\* The first call of a caller, made on an empty cache with the list
\* [http://h/a/b, http://h/a/b?x], has returned.
C11FirstCallDone ==
    /\ pc["c1"] = "returned"
    /\ prev["c1"].outcome = "idle"
    /\ urls["c1"] = <<UAB, UABq>>

\* C11: with an empty cache, requesting [http://h/a/b, http://h/a/b?x]
\* performs two downloads, one of each URL, leaves the two bodies in the two
\* files <root>/http/h/a/b and <root>/http/h/a/b?x, and returns these two
\* paths in this order.
C11QueryDistinct ==
    C11FirstCallDone =>
        LET locB  == <<<<"r">>, <<"http">>, <<"h">>, <<"a">>, <<"b">>>>
            locBq == <<<<"r">>, <<"http">>, <<"h">>, <<"a">>, <<"b", "?", "x">>>>
        IN  /\ Len(dls["c1"]) = 2
            /\ Range(dls["c1"]) = {urlparse(UAB), urlparse(UABq)}
            /\ locB \in DOMAIN fs /\ locBq \in DOMAIN fs
            /\ ino[fs[locB]] = Body(urlparse(UAB))
            /\ ino[fs[locBq]] = Body(urlparse(UABq))
            /\ ino[fs[locB]] # ino[fs[locBq]]
            /\ result["c1"] =
                 << <<"/", "r", "/", "http", "/", "h", "/", "a", "/", "b">>,
                    <<"/", "r", "/", "http", "/", "h", "/", "a", "/", "b",
                      "?", "x">> >>

C11Witness == C11FirstCallDone /\ Len(dls["c1"]) = 2

\* The call of a caller is over.
Ended(c) == pc[c] \in {"returned", "raised"}

\* The path of the i-th transfer the current call of c started.
PathOfTransfer(c, i) == Resolve(generatePath(data_location, dls[c][i]))

\* C12: a call with use_requests=True and authentication_url set starts no
\* transfer whatever the list and the cache, and ends with ValueError.
C12UsageErrorAlways ==
    \A c \in Callers :
        UsageError(opts[c]) =>
            /\ dls[c] = <<>>
            /\ Ended(c) => pc[c] = "raised" /\ err[c] = "ValueError"

\* The exceptions a denied transfer may end in: the transport's answer to the
\* status, or a failure of the network while the response is read.
DenialErrors == {"HTTPError", "RuntimeError", "TransferError"}

\* C13: when a call made with credentials the server does not accept is
\* over, and the server denied (401, 403) one of its transfers, the call has
\* raised and no file exists at the path of that URL.
C13WrongCredentials ==
    \A c \in Callers :
        (Ended(c) /\ opts[c].creds = "bad") =>
            \A i \in 1..Len(net[c]) :
                net[c][i].status \in {"401", "403"} =>
                    /\ pc[c] = "raised"
                    /\ err[c] \in DenialErrors
                    /\ PathOfTransfer(c, i) \notin DOMAIN fs

\* C14: when the server denied (401, 403) a transfer of a call that is over,
\* under either transport, the call has raised; and
\* the body of a denying response is never the content of a file at a URL's
\* final path.
C14DenialRaises ==
    /\ \A c \in Callers :
         (Ended(c) /\ \E i \in 1..Len(net[c]) :
                          net[c][i].status \in {"401", "403"})
         => pc[c] = "raised" /\ err[c] \in DenialErrors
    /\ \A loc \in FinalLocs :
         loc \in DOMAIN fs =>
             ino[fs[loc]] \notin {ErrorPage("401"), ErrorPage("403")}

\* C15: a call none of whose transfers was denied does not return normally
\* when one of its transfers got a status that is not 2xx or a body cut short
\* (a transfer the network failed is TransferFails: that call has raised).
C15TransferErrorRaises ==
    \A c \in Callers :
        pc[c] = "returned" =>
            \A i \in 1..Len(net[c]) :
                net[c][i].status # "404" /\ ~net[c][i].short

\* The URLs the previous, failed call of c with the same list had downloaded.
DoneBefore(c) ==
    IF prev[c].outcome = "raised" /\ prev[c].same THEN prev[c].done ELSE {}

\* The file of parsed URL u is in the cache; it holds the body of u when
\* every connection delivers the whole body.
StaysCached(u) ==
    /\ Resolve(generatePath(data_location, u)) \in DOMAIN fs
    /\ world = QuietWorld =>
          ino[fs[Resolve(generatePath(data_location, u))]] = Body(u)

\* C16 as stated: when a call has raised, every URL it downloaded before
\* the failing one has its file in the cache, and the next call with the
\* same urlList starts no transfer of a URL the failed call had downloaded.
C16PartialProgress ==
    \A c \in Callers :
        /\ pc[c] = "raised" =>
             \A u \in Range(dls[c]) \ {failedOn[c]} : StaysCached(u)
        /\ DoneBefore(c) \cap Range(dls[c]) = {}

\* C16 amended: the same, where the second part speaks of the URLs whose
\* file the failed call left with content.
C16PartialProgressNonEmpty ==
    \A c \in Callers :
        /\ pc[c] = "raised" =>
             \A u \in Range(dls[c]) \ {failedOn[c]} : StaysCached(u)
        /\ \A u \in DoneBefore(c) \ prev[c].vacant : u \notin Range(dls[c])

\* The call after a failed call with the same list is over; the failed call
\* had downloaded a URL and left its file with content before its last
\* transfer raised.
C16Witness ==
    \E c \in Callers :
        /\ Ended(c)
        /\ DoneBefore(c) \ prev[c].vacant # {}

\* C17: a step of the scan (checkIfDataExists on a listed file) never ends
\* the call, whatever the file is; and when the scan is over every requested
\* URL whose file is absent or zero bytes long is in the missing set.
C17ScanTolerant ==
    [][\A c \in Callers :
          /\ (pc[c] = "check" /\ listing[c] # {}) => pc'[c] = "check"
          /\ (pc[c] = "check" /\ listing[c] = {} /\ pc'[c] # "check"
              /\ ~UsageError(opts[c]))
             => \A u \in Range(Parsed(urls[c])) :
                    NothingCached(u) => u \in Range(missing'[c])]_vars

\* parseURL finds the scheme component in in_path (path.parts has an entry
\* at data_location_parts): no IndexError.
HasAccessType(root, in_path) ==
    Len(Components(in_path)) > Len(Components(root))

\* C18: for every well-formed URL u, parseURL applied to generatePath of u
\* yields the parsed u.
C18RoundTrip ==
    pa # <<>> =>
        /\ HasAccessType(data_location, pa)
        /\ parseURL(data_location, pa) = urlparse(ua)

\* C19: a file: URL without a host and the bare local path with the same
\* path component map to the same local path, which is under
\* <CacheRoot>/file/.
C19FileScheme ==
    (/\ pa # <<>> /\ pb # <<>>
     /\ urlparse(ua).scheme = <<"file">> /\ urlparse(ua).netloc = <<>>
     /\ urlparse(ub).scheme = <<>>
     /\ urlparse(ua).path = urlparse(ub).path)
    => /\ pa = pb
       /\ IsPrefix(<<<<"r">>, <<"file">>>>, Resolve(pb))

\* The text does not parse into a scheme and a host.
Malformed(url) == urlparse(url).scheme = <<>> \/ urlparse(url).netloc = <<>>

\* C20: a call whose urlList holds a malformed URL ends with the ValueError
\* that names a URL.
C20MalformedRaises ==
    \A c \in Callers :
        (Ended(c) /\ \E i \in 1..Len(urls[c]) : Malformed(urls[c][i]))
        => pc[c] = "raised" /\ err[c] = "InvalidURL"

\* C21: over the calls of cacheData for one data set name, the data_location
\* entry of that name is stored in the configuration file at most once, and
\* a call that finds the entry leaves the file as it is.
C21WrittenOnce ==
    /\ [](\A n \in DOMAIN writes : writes[n] <= 1)
    /\ [][\A p \in Processes :
            (rp[p] = "idle" /\ rcalls'[p] # rcalls[p] /\ rp'[p] = "idle")
            => conf_file' = conf_file]_vars

\* C28: when no process is inside getDataLocation, every data set whose
\* entry a process has stored has its entry in the configuration file.
C28NoLostUpdate ==
    (\A p \in Processes : rp[p] = "idle")
    => \A n \in DOMAIN writes : writes[n] > 0 => n \in DOMAIN conf_file.loc

\* C22: after any sequence of perturb() calls, reset() makes the current
\* list of an AutoList, AutoListSubset, AutoListPermute or AutoListRemove
\* equal, element by element, to the list given at construction.
C22ResetRestores ==
    ahist.last = "reset" => Deref(autolist, autolist.val_list) = ahist.given

\* C30: for extreme = n >= 1 the k-th perturb() since construction or the
\* last reset() leaves val_min or val_max as the value whenever k is a
\* multiple of n; for extreme = 0 the counter n never leaves 0 and no call
\* chooses between the extremes.
C30ExtremeEveryN ==
    /\ (param.n_max >= 1 /\ phist.last = "perturb"
        /\ phist.k % param.n_max = 0)
       => (phist.forced /\ param.val \in Extremes(param))
    /\ param.n_max = 0 => (param.n = 0 /\ ~phist.forced)

\* The sixth perturb() of an object with extreme = 3 has chosen between the
\* extremes.
C30Witness ==
    /\ param.n_max = 3 /\ phist.k = 6 /\ phist.last = "perturb"
    /\ phist.forced /\ param.n = 0

\* The windows next(key) has returned since create gave out the key are
\* those of startDT, startDT + D, startDT + 2D, ... in that order.
WindowsInOrder(key) ==
    \A i \in 1..Len(tlog.rets[key]) :
        tlog.rets[key][i] # <<>> =>
            tlog.rets[key][i] = <<tlog.start[key] + (i - 1) * tlog.step[key]>>

\* C23 as stated: the windows come in order, each once, and once next(key)
\* has returned None no later next(key) returns a window.
C23NoneIsFinal ==
    \A key \in Keys : WindowsInOrder(key) /\ ~tlog.afterNone[key]

\* C23 amended: the same, where None is final until create gives the key to
\* a new session.
C23WindowsThenNone ==
    \A key \in Keys :
        /\ WindowsInOrder(key)
        /\ \A i, j \in 1..Len(tlog.rets[key]) :
              (i < j /\ tlog.rets[key][i] = <<>>) => tlog.rets[key][j] = <<>>

\* A session with timeSteps = 2 has returned its two windows and then None.
C23Witness ==
    \E key \in Keys :
        /\ tlog.step[key] = 2
        /\ tlog.rets[key] = <<<<tlog.start[key]>>, <<tlog.start[key] + 2>>, <<>>>>

\* C29: the updater thread never ends, no next(key) call ends with an
\* exception, and with both threads scheduled fairly every next(key) call
\* on a session of the cache returns.
C29NextReturns ==
    /\ [](upd.at # "dead" /\ rpc.err = "none")
    /\ (rpc.at # "idle") ~> (rpc.at = "idle")

\* The transfers of a call that meets no other caller and no failing
\* transfer, from the URLs of its list that had nothing cached when it
\* began, in ascending order: each in turn, unless a transfer of the call
\* has filled its file already.
RECURSIVE DownloadsOf(_, _)
DownloadsOf(rest, filled) ==
    IF rest = <<>> THEN <<>>
    ELSE LET u   == Head(rest)
             loc == Resolve(generatePath(data_location, u))
         IN  IF loc \in filled THEN DownloadsOf(Tail(rest), filled)
             ELSE <<u>> \o DownloadsOf(Tail(rest),
                                       IF BodyLen(u) > 0 THEN filled \cup {loc}
                                       ELSE filled)

\* C24: the transfers of one call start one after the other in strictly
\* ascending order of the parsed URL, and the sequence of transfers of a
\* call that has returned is determined by the set of URLs of its list and
\* the cache it began with, not by the order of the list.
C24SortedDownloads ==
    \A c \in Callers :
        /\ \A i, j \in 1..Len(dls[c]) :
              i < j => UrlLess(dls[c][i], dls[c][j])
        /\ pc[c] = "returned" =>
              dls[c] = DownloadsOf(Sorted(prev[c].vacant), {})

\* A call with the list [http://h/e, http://h/a], neither cached, has
\* returned after the transfers of http://h/a and then http://h/e.
C24Witness ==
    \E c \in Callers :
        /\ pc[c] = "returned"
        /\ urls[c] = <<UE, UA>>
        /\ prev[c].vacant = {urlparse(UA), urlparse(UE)}
        /\ dls[c] = <<urlparse(UA), urlparse(UE)>>

\* C25: every call that has begun returns or raises; a call that has ended
\* has closed its lockfile and its temporary file; and a process holds a
\* lock only on the lockfile one of its callers has open.
C25EveryCallEnds ==
    /\ \A c \in Callers :
          (pc[c] \notin {"idle", "returned", "raised"})
              ~> (pc[c] \in {"returned", "raised"})
    /\ [](\A c \in Callers :
            pc[c] \in {"idle", "returned", "raised"}
                => fd[c] = NoIno /\ tmp[c] = NoIno)
    /\ [](\A i \in DOMAIN lock :
            lock[i] # "none"
                => \E c \in Callers : proc[c] = lock[i] /\ fd[c] = i)

\* A caller waits in lockf for a lock another process holds.
C25Witness == \E c \in Callers : Blocked(c)

\* C26: whenever a call renames its temporary file onto the path of a URL,
\* the file at that path was absent or empty just before the rename.
C26NoOverwrite ==
    [][\A c \in Callers :
          (/\ pc[c] = "copy"
           /\ Target(c) \in DOMAIN fs'
           /\ fs'[Target(c)] = tmp[c])
          => NothingCached(Head(missing[c]))]_vars

\* C27: a call made without username and password starts its transfers
\* with nothing of an earlier call: with requests, or with urlopen while no
\* opener of another call is installed in the process.
C27NoCredentialLeak ==
    [][\A c \in Callers :
          (pc[c] = "lock" /\ pc'[c] = "copy" /\ opts[c].creds = "none")
          => (opts[c].use_requests \/ opener[proc[c]] = NoOpener)]_vars

====
